---- MODULE Spec2Model ----
(***************************************************************************)
(* Model of the Aesop fable pipeline: deduplicate_fables.py (title         *)
(* normalizer, duplicate grouper, version scorer) and embed_fables.py       *)
(* (loading the data file and filling the collection).                      *)
(*                                                                          *)
(* Python str values are TLA+ strings; TLC evaluates Len, SubSeq and \o on  *)
(* them, so a character is a string of length one.                          *)
(***************************************************************************)
EXTENDS Integers, Sequences, FiniteSets, TLC

VARIABLES pc,        \* position of the program being run
          t, u,      \* normalizer: a title and a variant of it
          kt, ku,    \* normalizer: the keys returned for t and u
          cand,      \* scorer: the candidate being scored
          total,     \* scorer: the total_score computed for cand
          dups,                \* scorer: the group given to choose_best_version
          chosen,              \* scorer: position in dups of the dict returned
          files,               \* the JSON files on disk, by name
          removed_file,        \* the lines of removed_stories.txt after its header
          runs,                \* completed runs of deduplicate_fables
          fables,              \* deduplicate_fables: the loaded list
          title_groups,        \* the dict of groups, in insertion order
          gi,                  \* grouping loop: position of the next fable
          si,                  \* selection loop: position of the next group
          deduplicated_fables, \* positions in fables of the records kept
          duplicates_found,
          removed_stories,
          e_fables,            \* embedder main: the list load_fables returned
          collection,          \* the collection aesop_fables of ./chroma_db
          existing_count,      \* embedder main: the count taken before the prompt
          prepared,            \* embed_fables: ids, documents and metadatas, in step
          bi,                  \* embed_fables: 0-based start of the next batch
          persisted,           \* what setup_chromadb found under ./chroma_db
          proceed,             \* embedder main: the answer to the prompt of line 153
          deleted,             \* calls of delete_collection in this run
          add_calls,           \* the batches given to collection.add, in call order
          in_file,             \* deduplicate_fables: the input_file of the latest run
          n_results,           \* query_fables: the number of results asked for
          results,             \* query_fables: what collection.query returned
          fable_links,         \* scrape_all_fables: the links of the search page
          li,                  \* scrape_all_fables: links visited so far
          scraped_fables,      \* scrape_all_fables: the result list
          visited,             \* the calls of scrape_fable: link and outcome, in order
          sleeps               \* per call of time.sleep, the links visited before it

normVars == <<t, u, kt, ku>>
scoreVars == <<cand, total, dups, chosen>>
diskVars == <<files, removed_file, runs>>
dedupVars == <<fables, title_groups, gi, si, deduplicated_fables, duplicates_found,
               removed_stories>>

embedVars == <<e_fables, collection, existing_count, prepared, bi, persisted, proceed,
               deleted, add_calls>>

queryVars == <<n_results, results>>
scrapeVars == <<fable_links, li, scraped_fables, visited, sleeps>>

vars == <<pc, normVars, scoreVars, diskVars, dedupVars, embedVars, in_file, queryVars,
          scrapeVars>>

(***************************************************************************)
(* Bounds.                                                                  *)
(***************************************************************************)
MaxTokens == 3      \* a title is made of at most this many tokens
MaxRecords == 3     \* the scraped file holds at most this many records
MaxRuns == 2        \* deduplicate_fables is run at most this many times
MaxGroup == 3       \* a group handed to choose_best_version alone has at most this many members
MaxFables == 3      \* the data file the embedder loads alone holds at most this many records
MaxItems == 201     \* the longest list given to the batch loop of embed_fables
MaxStored == 4      \* the collection a query runs against holds at most this many entries
MaxK == 5           \* a query asks for at most this many results
MaxLinks == 4       \* the search page lists at most this many fable links

(***************************************************************************)
(* Characters (the ASCII part of Python's str methods and re classes).      *)
(***************************************************************************)
UpperChars == "ABCDEFGHIJKLMNOPQRSTUVWXYZ"
LowerChars == "abcdefghijklmnopqrstuvwxyz"
DigitChars == "0123456789"

Ch(s, i) == SubSeq(s, i, i)

CharsOf(s) == {Ch(s, i) : i \in 1..Len(s)}

UpperSet == CharsOf(UpperChars)
LetterSet == UpperSet \cup CharsOf(LowerChars)
DigitSet == CharsOf(DigitChars)

IsLetter(c) == c \in LetterSet
IsDigit(c) == c \in DigitSet

\* \s of the re module
IsSpace(c) == c \in {" ", "\t", "\n"}

\* \w of the re module: letters, digits and the underscore
IsWord(c) == IsLetter(c) \/ IsDigit(c) \/ c = "_"

\* str.lower(), one character
LowerOf == [c \in UpperSet |->
               Ch(LowerChars, CHOOSE i \in 1..Len(UpperChars) : Ch(UpperChars, i) = c)]

LowerChar(c) == IF c \in UpperSet THEN LowerOf[c] ELSE c

RECURSIVE lower(_)
lower(s) == IF s = "" THEN "" ELSE LowerChar(Head(s)) \o lower(Tail(s))

StartsWith(s, p) == Len(s) >= Len(p) /\ SubSeq(s, 1, Len(p)) = p

\* number of whitespace characters of s starting at position i (greedy \s+)
RECURSIVE SpaceRun(_, _)
SpaceRun(s, i) ==
    IF i <= Len(s) /\ IsSpace(Ch(s, i)) THEN 1 + SpaceRun(s, i + 1) ELSE 0

\* pattern $ without re.MULTILINE: the end of the string, or just before a
\* newline that is the last character
AtEnd(s, i) == i = Len(s) + 1 \/ (i = Len(s) /\ Ch(s, i) = "\n")

\* re.sub(r'^(the|a|an)\s+', '', title)
Articles == <<"the", "a", "an">>

ArticleMatch(s, a) == StartsWith(s, a) /\ SpaceRun(s, Len(a) + 1) > 0

StripArticle(s) ==
    IF \E k \in 1..Len(Articles) : ArticleMatch(s, Articles[k])
    THEN LET k == CHOOSE j \in 1..Len(Articles) :
                      /\ ArticleMatch(s, Articles[j])
                      /\ \A h \in 1..(j - 1) : ~ArticleMatch(s, Articles[h])
             a == Articles[k]
             n == Len(a) + SpaceRun(s, Len(a) + 1)
         IN  SubSeq(s, n + 1, Len(s))
    ELSE s

\* re.sub(r'\s+(fable|story|tale)$', '', title)
Genres == {"fable", "story", "tale"}

\* a match starts at i: whitespace from i up to j - 1, a genre word from j, then $
GenreMatch(s, i) ==
    LET n == SpaceRun(s, i)
        j == i + n
    IN  /\ n > 0
        /\ \E g \in Genres : /\ StartsWith(SubSeq(s, j, Len(s)), g)
                             /\ AtEnd(s, j + Len(g))

StripGenre(s) ==
    IF \E i \in 1..Len(s) : GenreMatch(s, i)
    THEN LET i == CHOOSE h \in 1..Len(s) :
                      /\ GenreMatch(s, h)
                      /\ \A l \in 1..(h - 1) : ~GenreMatch(s, l)
             j == i + SpaceRun(s, i)
             g == CHOOSE w \in Genres : /\ StartsWith(SubSeq(s, j, Len(s)), w)
                                        /\ AtEnd(s, j + Len(w))
         IN  SubSeq(s, 1, i - 1) \o SubSeq(s, j + Len(g), Len(s))
    ELSE s

\* re.sub(r'[^\w\s]', '', title)
RECURSIVE StripPunct(_)
StripPunct(s) ==
    IF s = "" THEN ""
    ELSE LET c == Head(s)
         IN  (IF IsWord(c) \/ IsSpace(c) THEN c ELSE "") \o StripPunct(Tail(s))

\* re.sub(r'\s+', ' ', title)
RECURSIVE CollapseSpaces(_)
CollapseSpaces(s) ==
    IF s = "" THEN ""
    ELSE IF IsSpace(Head(s))
         THEN " " \o CollapseSpaces(SubSeq(s, SpaceRun(s, 1) + 1, Len(s)))
         ELSE Head(s) \o CollapseSpaces(Tail(s))

\* str.strip()
RECURSIVE lstrip(_)
lstrip(s) == IF s # "" /\ IsSpace(Head(s)) THEN lstrip(Tail(s)) ELSE s

RECURSIVE rstrip(_)
rstrip(s) ==
    IF s # "" /\ IsSpace(Ch(s, Len(s))) THEN rstrip(SubSeq(s, 1, Len(s) - 1)) ELSE s

strip(s) == rstrip(lstrip(s))

normalize_title(title) ==
    strip(CollapseSpaces(StripPunct(StripGenre(StripArticle(lower(title))))))

(***************************************************************************)
(* Python floats.  Every score of choose_best_version is a decimal with    *)
(* one or two places that IEEE-754 double arithmetic has rounded; a float   *)
(* is modelled as v, the exact decimal result scaled to an integer, and e,  *)
(* the distance in units of the last place between the double the code      *)
(* holds and the double nearest to v.  Two floats of the same scale and the *)
(* same v compare by e.                                                     *)
(***************************************************************************)
Float(v, e) == [v |-> v, e |-> e]

\* x + d and x - d for the content_score adjustments, in tenths:
\* 0.8 - 0.1 is 0.7000000000000001, 0.7 + 0.2 is 0.8999999999999999 and
\* 0.7000000000000001 + 0.2 is 0.9000000000000001; every other step of
\* lines 46-56 gives the double nearest to the decimal result
FloatAdd(x, d) ==
    Float(x.v + d,
          CASE x = Float(8, 0) /\ d = -1 -> 1
            [] x = Float(7, 0) /\ d = 2 -> -1
            [] x = Float(7, 1) /\ d = 2 -> 1
            [] OTHER -> 0)

\* word_score * content_score, tenths times tenths giving hundredths;
\* multiplying by 1.0 and by 0.5 is exact, multiplying by 0.9 and by 0.8
\* rounds as tabulated
FloatMul(w, x) ==
    Float(w * x.v,
          CASE w \in {10, 5} -> x.e
            [] w = 9 /\ x \in {Float(7, 1), Float(8, 0), Float(9, 1), Float(11, 0)} -> 1
            [] w = 9 /\ x = Float(9, -1) -> -1
            [] w = 8 /\ x \in {Float(8, 0), Float(9, 0), Float(11, 0)} -> 1
            [] w = 8 /\ x = Float(9, 1) -> 2
            [] w = 8 /\ x = Float(7, 0) -> -1
            [] OTHER -> 0)

FloatLess(x, y) == x.v < y.v \/ (x.v = y.v /\ x.e < y.e)

(***************************************************************************)
(* Version scorer.  A fable is a function from field names to values (a    *)
(* Python dict); content is a string and `m in content' a substring test.  *)
(***************************************************************************)
Contains(s, m) == \E i \in 1..(Len(s) - Len(m) + 1) : SubSeq(s, i, i + Len(m) - 1) = m

HasKey(fable, k) == k \in DOMAIN fable

\* lines 36-43, in tenths
word_score(word_count) ==
    IF 100 <= word_count /\ word_count <= 500 THEN 10
    ELSE IF 50 <= word_count /\ word_count < 100 THEN 8
    ELSE IF 500 < word_count /\ word_count <= 1000 THEN 9
    ELSE 5

MoralWords == {"moral:", "lesson:", "application:"}

\* lines 46-56, in tenths
content_score(content) ==
    LET c0 == Float(10, 0)
        c1 == IF Contains(content, "AesopFables.com") THEN FloatAdd(c0, -1) ELSE c0
        c2 == IF Contains(content, "Process took:") THEN FloatAdd(c1, -2) ELSE c1
        c3 == IF Contains(content, "Copyright") THEN FloatAdd(c2, -1) ELSE c2
    IN  IF \E word \in MoralWords : Contains(lower(content), word)
        THEN FloatAdd(c3, 2)
        ELSE c3

\* line 58, in hundredths
total_score(fable) == FloatMul(word_score(fable["word_count"]), content_score(fable["content"]))

(***************************************************************************)
(* Values that stand for nothing: no candidate, no score, no collection,  *)
(* no file; and a file with its contents.                                   *)
(***************************************************************************)
NoFable == [none |-> TRUE]
NoScore == Float(0, 0)
NoCollection == [exists |-> FALSE, entries |-> <<>>]
Absent == [exists |-> FALSE, data |-> <<>>]
File(data) == [exists |-> TRUE, data |-> data]
FileNames == {"aesop_fables.json", "aesop_fables_deduplicated.json"}

(***************************************************************************)
(* choose_best_version and deduplicate_fables.  A member of a group is the *)
(* position in fables of the dict the group refers to, so two dicts with    *)
(* equal fields stay two members.                                           *)
(***************************************************************************)

\* lines 31-33: scoring a candidate reads word_count and content
Scorable(fable) == HasKey(fable, "word_count") /\ HasKey(fable, "content")

\* lines 29-59: the list of (total_score, fable) pairs, kept as the scores
RECURSIVE scored_versions(_)
scored_versions(duplicates) ==
    IF duplicates = <<>> THEN <<>>
    ELSE <<total_score(Head(duplicates))>> \o scored_versions(Tail(duplicates))

\* max() walks the items and replaces its current best only by an item whose
\* key is strictly greater; j is the next position, m the current best
RECURSIVE MaxFrom(_, _, _)
MaxFrom(scores, j, m) ==
    IF j > Len(scores) THEN m
    ELSE MaxFrom(scores, j + 1, IF FloatLess(scores[m], scores[j]) THEN j ELSE m)

\* a max() that replaces its current best also by an item of equal key
RECURSIVE MaxFromLast(_, _, _)
MaxFromLast(scores, j, m) ==
    IF j > Len(scores) THEN m
    ELSE MaxFromLast(scores, j + 1, IF FloatLess(scores[j], scores[m]) THEN m ELSE j)

LastMax(scores) == MaxFromLast(scores, 2, 1)

\* line 62: max(scored_versions, key=lambda x: x[0])
FirstMax(scores) == MaxFrom(scores, 2, 1)

\* the result is the position in duplicates of the dict returned
choose_best_version(duplicates) ==
    IF \E j \in 1..Len(duplicates) : ~Scorable(duplicates[j])
    THEN "KeyError"
    ELSE FirstMax(scored_versions(duplicates))

\* a grouping that assigns [fable] to the key instead of appending to its list
GroupAssign(groups, key, member) ==
    IF \E g \in 1..Len(groups) : groups[g].key = key
    THEN [g \in 1..Len(groups) |->
             IF groups[g].key = key
             THEN [groups[g] EXCEPT !.group = <<member>>]
             ELSE groups[g]]
    ELSE Append(groups, [key |-> key, group |-> <<member>>])

\* a grouping into a mapping that does not keep insertion order: a new key
\* goes in front of the keys already there
GroupUnordered(groups, key, member) ==
    IF \E g \in 1..Len(groups) : groups[g].key = key
    THEN [g \in 1..Len(groups) |->
             IF groups[g].key = key
             THEN [groups[g] EXCEPT !.group = Append(@, member)]
             ELSE groups[g]]
    ELSE <<[key |-> key, group |-> <<member>>]>> \o groups

\* title_groups[normalized_title].append(fable) on a defaultdict(list)
GroupAppend(groups, key, member) ==
    IF \E g \in 1..Len(groups) : groups[g].key = key
    THEN [g \in 1..Len(groups) |->
             IF groups[g].key = key
             THEN [groups[g] EXCEPT !.group = Append(@, member)]
             ELSE groups[g]]
    ELSE Append(groups, [key |-> key, group |-> <<member>>])

\* line 103: url.split('?srch&')[-1] if '?srch&' in url else url
SrchMark == "?srch&"

url_suffix(url) ==
    IF Contains(url, SrchMark)
    THEN LET starts == 1..(Len(url) - Len(SrchMark) + 1)
             last == CHOOSE i \in starts :
                         /\ SubSeq(url, i, i + Len(SrchMark) - 1) = SrchMark
                         /\ \A j \in starts :
                                j > i => SubSeq(url, j, j + Len(SrchMark) - 1) # SrchMark
         IN  SubSeq(url, last + Len(SrchMark), Len(url))
    ELSE url

\* lines 100-104: the members of group that differ (dict !=) from best_version
RECURSIVE RemovedOf(_, _, _)
RemovedOf(fs, group, best) ==
    IF group = <<>> THEN <<>>
    ELSE (IF fs[Head(group)] # fs[best]
          THEN <<url_suffix(fs[Head(group)]["url"])>>
          ELSE <<>>) \o RemovedOf(fs, Tail(group), best)

\* the dicts a group refers to, each with its title replaced by its key
MembersRetitled(fs, group) ==
    [j \in 1..Len(group) |-> [fs[group[j]] EXCEPT !["title"] = normalize_title(@)]]

\* the dicts a group refers to
RECURSIVE Members(_, _)
Members(fs, group) ==
    IF group = <<>> THEN <<>> ELSE <<fs[Head(group)]>> \o Members(fs, Tail(group))

\* lines 91-92 and 95 raise KeyError for this group
ScoringRaises(fs, group) ==
    \/ \E j \in 1..Len(group) : ~HasKey(fs[group[j]], "word_count")
    \/ \E j \in 1..Len(group) : ~HasKey(fs[group[j]], "content")

\* lines 100-104 raise KeyError for this group
RemovedRaises(fs, group, best) ==
    \E j \in 1..Len(group) : fs[group[j]] # fs[best] /\ ~HasKey(fs[group[j]], "url")

input_file == "aesop_fables.json"
output_file == "aesop_fables_deduplicated.json"

\* lines 66-74: open and json.load the input file
DedupLoad ==
    /\ pc \in {"scraped", "dedup_done"}
    /\ runs < MaxRuns
    /\ files[input_file].exists
    /\ fables' = files[input_file].data
    /\ title_groups' = <<>>
    /\ gi' = 1
    /\ si' = 0
    /\ deduplicated_fables' = <<>>
    /\ duplicates_found' = 0
    /\ removed_stories' = <<>>
    /\ pc' = "grouping"
    /\ UNCHANGED <<normVars, scoreVars, diskVars, embedVars>>
    /\ in_file' = input_file
    /\ UNCHANGED <<queryVars, scrapeVars>>

\* deduplicate_fables(input_file="aesop_fables_deduplicated.json"): the same
\* lines 66-74, for a call whose input is the file an earlier run wrote
DedupLoadOutput ==
    /\ pc \in {"dedup_done", "KeyError", "ValueError"}
    /\ runs < MaxRuns
    /\ files[output_file].exists
    /\ in_file' = output_file
    /\ fables' = files[output_file].data
    /\ title_groups' = <<>>
    /\ gi' = 1
    /\ si' = 0
    /\ deduplicated_fables' = <<>>
    /\ duplicates_found' = 0
    /\ removed_stories' = <<>>
    /\ pc' = "grouping"
    /\ UNCHANGED <<normVars, scoreVars, diskVars, embedVars, queryVars, scrapeVars>>

\* lines 76-78, one fable
DedupGroup ==
    /\ pc = "grouping"
    /\ gi <= Len(fables)
    /\ IF HasKey(fables[gi], "title")
       THEN /\ title_groups' =
                  GroupAppend(title_groups, normalize_title(fables[gi]["title"]), gi)
            /\ gi' = gi + 1
            /\ pc' = "grouping"
       ELSE /\ pc' = "KeyError"
            /\ UNCHANGED <<title_groups, gi>>
    /\ UNCHANGED <<normVars, scoreVars, embedVars, diskVars, fables, si, deduplicated_fables,
                   duplicates_found, removed_stories>>
    /\ UNCHANGED <<in_file, queryVars, scrapeVars>>

\* lines 81-83, after the last fable is grouped
DedupStartSelect ==
    /\ pc = "grouping"
    /\ gi > Len(fables)
    /\ deduplicated_fables' = <<>>
    /\ duplicates_found' = 0
    /\ removed_stories' = <<>>
    /\ si' = 1
    /\ pc' = "selecting"
    /\ UNCHANGED <<normVars, scoreVars, embedVars, diskVars, fables, title_groups, gi>>
    /\ UNCHANGED <<in_file, queryVars, scrapeVars>>

\* lines 85-108, one group
DedupSelect ==
    /\ pc = "selecting"
    /\ si <= Len(title_groups)
    /\ LET group == title_groups[si].group
       IN  IF Len(group) > 1
           THEN IF ScoringRaises(fables, group)
                THEN /\ pc' = "KeyError"
                     /\ UNCHANGED <<si, deduplicated_fables, duplicates_found,
                                    removed_stories>>
                ELSE LET best_version ==
                             group[choose_best_version(Members(fables, group))]
                     IN  IF RemovedRaises(fables, group, best_version)
                         THEN /\ pc' = "KeyError"
                              /\ UNCHANGED <<si, deduplicated_fables, duplicates_found,
                                             removed_stories>>
                         ELSE /\ duplicates_found' = duplicates_found + Len(group) - 1
                              /\ removed_stories' =
                                     removed_stories
                                         \o RemovedOf(fables, group, best_version)
                              /\ deduplicated_fables' =
                                     Append(deduplicated_fables, best_version)
                              /\ si' = si + 1
                              /\ pc' = "selecting"
           ELSE /\ deduplicated_fables' = Append(deduplicated_fables, group[1])
                /\ si' = si + 1
                /\ pc' = "selecting"
                /\ UNCHANGED <<duplicates_found, removed_stories>>
    /\ UNCHANGED <<normVars, scoreVars, embedVars, diskVars, fables, title_groups, gi>>
    /\ UNCHANGED <<in_file, queryVars, scrapeVars>>

\* open(name, 'a') followed by the writes: the old contents stay
AppendFile(old, data) == File(old.data \o data)

\* open(name, 'w') followed by the writes: the old contents are dropped
WriteFile(old, data) == File(data)

\* lines 110-127: json.dump the kept records, rewrite removed_stories.txt
DedupSave ==
    /\ pc = "selecting"
    /\ si > Len(title_groups)
    /\ files' = [files EXCEPT ![output_file] =
                     WriteFile(@, Members(fables, deduplicated_fables))]
    /\ removed_file' = WriteFile(removed_file, removed_stories)
    /\ runs' = runs + 1
    /\ pc' = "dedup_saved"
    /\ UNCHANGED <<normVars, scoreVars, dedupVars, embedVars>>
    /\ UNCHANGED <<in_file, queryVars, scrapeVars>>

\* main, lines 132-137: the statistics read word_count of every kept record
\* and take min, max and a mean over them
DedupStats ==
    /\ pc = "dedup_saved"
    /\ pc' = IF \E j \in 1..Len(deduplicated_fables) :
                    ~HasKey(fables[deduplicated_fables[j]], "word_count")
             THEN "KeyError"
             ELSE IF deduplicated_fables = <<>> THEN "ValueError" ELSE "dedup_done"
    /\ UNCHANGED <<normVars, scoreVars, diskVars, dedupVars, embedVars>>
    /\ UNCHANGED <<in_file, queryVars, scrapeVars>>

(***************************************************************************)
(* embed_fables.py: FableEmbedder and main.  The collection is the list of  *)
(* its entries; an entry carries its id and the metadata taken from the     *)
(* fable.                                                                   *)
(***************************************************************************)
data_file == "aesop_fables.json"
batch_size == 100

Collection(entries) == [exists |-> TRUE, entries |-> entries]

\* str(i) for i >= 0
RECURSIVE Digits(_)
Digits(i) == IF i < 10 THEN Ch(DigitChars, i + 1)
             ELSE Digits(i \div 10) \o Ch(DigitChars, (i % 10) + 1)

\* format spec 04d: zeros on the left up to a width of four
RECURSIVE ZeroPad(_, _)
ZeroPad(s, width) == IF Len(s) >= width THEN s ELSE ZeroPad("0" \o s, width)

fable_id_unpadded(i) == "fable_" \o Digits(i)

\* f"fable_{i:04d}"
fable_id(i) == "fable_" \o ZeroPad(Digits(i), 4)

EmbedFields == {"content", "title", "original_title", "url", "word_count"}

\* position of the leftmost occurrence of m in s at or after position i, 0 when
\* there is none
FindFrom(s, m, i) ==
    LET hits == {j \in i..(Len(s) - Len(m) + 1) : SubSeq(s, j, j + Len(m) - 1) = m}
    IN  IF hits = {} THEN 0 ELSE CHOOSE j \in hits : \A k \in hits : j <= k

\* what a match of .*?$ (re.DOTALL) that starts at position p leaves of s: the
\* newline that is the last character, when the match stops before it
KeepTail(s, p) == IF p <= Len(s) /\ Ch(s, Len(s)) = "\n" THEN "\n" ELSE ""

\* line 32: re.sub(r'^AesopFables\.com.*?\n', '', content)
StripHeader(s) ==
    LET mark == "AesopFables.com"
        nl == FindFrom(s, "\n", Len(mark) + 1)
    IN  IF StartsWith(s, mark) /\ nl # 0 THEN SubSeq(s, nl + 1, Len(s)) ELSE s

\* line 33: re.sub(r'Process took:.*?Copyright.*?$', '', content, flags=re.DOTALL)
StripTiming(s) ==
    LET from == FindFrom(s, "Process took:", 1)
        copy == IF from = 0 THEN 0 ELSE FindFrom(s, "Copyright", from + 13)
    IN  IF copy = 0 THEN s ELSE SubSeq(s, 1, from - 1) \o KeepTail(s, copy + 9)

\* re.sub(head\s*tail.*?$, '', s, flags=re.DOTALL): the leftmost head that is
\* followed, after any whitespace, by tail
CutFrom(s, head, tail) ==
    LET after(j) == j + Len(head) + SpaceRun(s, j + Len(head))
        hits == {j \in 1..(Len(s) - Len(head) + 1) :
                    /\ SubSeq(s, j, j + Len(head) - 1) = head
                    /\ after(j) + Len(tail) - 1 <= Len(s)
                    /\ SubSeq(s, after(j), after(j) + Len(tail) - 1) = tail}
    IN  IF hits = {} THEN s
        ELSE LET j == CHOOSE h \in hits : \A k \in hits : h <= k
             IN  SubSeq(s, 1, j - 1) \o KeepTail(s, after(j) + Len(tail))

\* line 34: re.sub(r'RETURN\s*Process took.*?$', '', content, flags=re.DOTALL)
StripReturn(s) == CutFrom(s, "RETURN", "Process took")

\* line 35: re.sub(r'THE END\s*RETURN.*?$', '', content, flags=re.DOTALL)
StripTheEnd(s) == CutFrom(s, "THE END", "RETURN")

\* line 38: re.sub(r'\n\s*\n', '\n\n', content); greedy \s* reaches the last
\* newline of the whitespace that follows a newline
RECURSIVE SquashBlankLines(_)
SquashBlankLines(s) ==
    IF s = "" THEN ""
    ELSE IF Ch(s, 1) = "\n"
         THEN LET nls == {k \in 2..(1 + SpaceRun(s, 2)) : Ch(s, k) = "\n"}
              IN  IF nls = {} THEN "\n" \o SquashBlankLines(SubSeq(s, 2, Len(s)))
                  ELSE LET q == CHOOSE k \in nls : \A m \in nls : m <= k
                       IN  "\n\n" \o SquashBlankLines(SubSeq(s, q + 1, Len(s)))
         ELSE Ch(s, 1) \o SquashBlankLines(SubSeq(s, 2, Len(s)))

\* clean_content, lines 29-43
clean_content(content) ==
    strip(SquashBlankLines(StripTheEnd(StripReturn(StripTiming(StripHeader(content))))))

\* lines 83-92, for the fable at 0-based position i
Entry(i, fable) ==
    LET cleaned_content == clean_content(fable["content"])
    IN  [id |-> fable_id(i),
         document |-> cleaned_content,
         metadata |-> [title |-> fable["title"],
                       original_title |-> fable["original_title"],
                       url |-> fable["url"], word_count |-> fable["word_count"],
                       cleaned_length |-> Len(cleaned_content)]]

\* the entries of the fables fs, the first of them at 0-based position i
EntriesFrom(fs, i) == [k \in 1..Len(fs) |-> Entry(i + k - 1, fs[k])]

HasId(entries, id) == \E k \in 1..Len(entries) : entries[k].id = id

\* collection.add of the library in use: a record whose id is already in the
\* collection is left out (the ids of one batch of embed_fables differ from
\* each other)
AddNew(entries, batch) ==
    LET ids == {entries[k].id : k \in 1..Len(entries)}
        IsNew(entry) == entry.id \notin ids
    IN  entries \o SelectSeq(batch, IsNew)

\* an id of the batch is already in the collection
Collides(entries, batch) == \E k \in 1..Len(batch) : HasId(entries, batch[k].id)

\* the slice taken one position too early
BatchOverlap(items, i) ==
    LET end_idx == IF i + batch_size < Len(items) THEN i + batch_size ELSE Len(items)
    IN  SubSeq(items, IF i = 0 THEN 1 ELSE i, end_idx)

\* min(i + batch_size, len(documents)) and the slice [i:end_idx], i 0-based
Batch(items, i) ==
    LET end_idx == IF i + batch_size < Len(items) THEN i + batch_size ELSE Len(items)
    IN  SubSeq(items, i + 1, end_idx)

\* what a run finds under ./chroma_db: nothing, or the collection of an
\* earlier run
OldEntries ==
    <<[id |-> "fable_0000",
       document |-> "An ant.",
       metadata |-> [title |-> "The Ant", original_title |-> "The Ant",
                     url |-> "http://aesopfables.com/ant.html", word_count |-> 120,
                     cleaned_length |-> 7]]>>

PersistedCollections == {NoCollection, Collection(OldEntries)}

\* what the operator may type at a prompt
Answers == {"y", " Y\n", "n", "yes"}

SaysYesLoose(answer) == strip(lower(answer)) # "n"

\* input(...).lower().strip() == 'y'
SaysYes(answer) == strip(lower(answer)) = "y"

\* lines 140-143: FableEmbedder() and load_fables
EmbedLoad ==
    /\ pc \in {"scraped", "dedup_done"}
    /\ files[data_file].exists
    /\ e_fables' = files[data_file].data
    /\ pc' = "embed_setup"
    /\ UNCHANGED <<normVars, scoreVars, diskVars, dedupVars, collection, existing_count,
                   prepared, bi, persisted, proceed, deleted, add_calls>>
    /\ UNCHANGED <<in_file, queryVars, scrapeVars>>

\* setup_chromadb, lines 45-64: get_collection, or create_collection when it raises
EmbedSetup ==
    /\ pc = "embed_setup"
    /\ \E found \in PersistedCollections :
           /\ persisted' = found
           /\ collection' = IF found.exists THEN found ELSE Collection(<<>>)
    /\ pc' = "embed_count"
    /\ UNCHANGED <<normVars, scoreVars, diskVars, dedupVars, e_fables, existing_count,
                   prepared, bi, proceed, deleted, add_calls>>
    /\ UNCHANGED <<in_file, queryVars, scrapeVars>>

\* line 149: get_collection_info
EmbedCount ==
    /\ pc = "embed_count"
    /\ existing_count' = Len(collection.entries)
    /\ pc' = IF Len(collection.entries) > 0 THEN "embed_prompt" ELSE "embed_decide"
    /\ UNCHANGED <<normVars, scoreVars, diskVars, dedupVars, e_fables, collection,
                   prepared, bi, persisted, proceed, deleted, add_calls>>
    /\ UNCHANGED <<in_file, queryVars, scrapeVars>>

\* lines 151-163: the prompt, then delete_collection and create_collection on 'y'
EmbedPrompt ==
    /\ pc = "embed_prompt"
    /\ \E answer \in Answers :
           /\ proceed' = strip(lower(answer))
           /\ IF SaysYes(answer)
              THEN /\ collection' = Collection(<<>>)
                   /\ deleted' = deleted + 1
              ELSE UNCHANGED <<collection, deleted>>
    /\ pc' = "embed_decide"
    /\ UNCHANGED <<normVars, scoreVars, diskVars, dedupVars, e_fables, existing_count,
                   prepared, bi, persisted, add_calls>>
    /\ UNCHANGED <<in_file, queryVars, scrapeVars>>

\* line 166: embed when the collection was empty, else ask the operator again
EmbedDecide ==
    /\ pc = "embed_decide"
    /\ IF existing_count = 0
       THEN pc' = "embed_prepare"
       ELSE \E answer \in Answers :
                pc' = IF SaysYes(answer) THEN "embed_prepare" ELSE "embed_search"
    /\ UNCHANGED <<normVars, scoreVars, diskVars, dedupVars, embedVars>>
    /\ UNCHANGED <<in_file, queryVars, scrapeVars>>

\* embed_fables, lines 68-92: documents, metadatas and ids of every fable
EmbedPrepare ==
    /\ pc = "embed_prepare"
    /\ IF \E i \in 1..Len(e_fables) : ~(EmbedFields \subseteq DOMAIN e_fables[i])
       THEN /\ pc' = "KeyError"
            /\ UNCHANGED <<prepared, bi>>
       ELSE /\ prepared' = EntriesFrom(e_fables, 0)
            /\ bi' = 0
            /\ pc' = "embed_batches"
    /\ UNCHANGED <<normVars, scoreVars, diskVars, dedupVars, e_fables, collection,
                   existing_count, persisted, proceed, deleted, add_calls>>
    /\ UNCHANGED <<in_file, queryVars, scrapeVars>>

\* embed_fables, lines 96-108: one batch.  When an id of the batch is already
\* in the collection the library, by its version, leaves that record out or
\* raises and adds nothing.
EmbedAddBatch ==
    /\ pc = "embed_batches"
    /\ bi < Len(prepared)
    /\ add_calls' = Append(add_calls, Batch(prepared, bi))
    /\ \/ /\ collection' = Collection(AddNew(collection.entries, Batch(prepared, bi)))
          /\ bi' = bi + batch_size
          /\ pc' = pc
       \/ /\ Collides(collection.entries, Batch(prepared, bi))
          /\ pc' = "DuplicateIDError"
          /\ UNCHANGED <<collection, bi>>
    /\ UNCHANGED <<normVars, scoreVars, diskVars, dedupVars, e_fables, existing_count,
                   prepared, persisted, proceed, deleted>>
    /\ UNCHANGED <<in_file, queryVars, scrapeVars>>

\* line 110, after the last batch
EmbedFinish ==
    /\ pc = "embed_batches"
    /\ bi >= Len(prepared)
    /\ pc' = "embed_search"
    /\ UNCHANGED <<normVars, scoreVars, diskVars, dedupVars, embedVars>>
    /\ UNCHANGED <<in_file, queryVars, scrapeVars>>

\* lines 170-175: the three test searches and the final count read the collection
EmbedSearch ==
    /\ pc = "embed_search"
    /\ pc' = "embed_done"
    /\ UNCHANGED <<normVars, scoreVars, diskVars, dedupVars, embedVars>>
    /\ UNCHANGED <<in_file, queryVars, scrapeVars>>

EmbedNext ==
    \/ EmbedLoad
    \/ EmbedSetup
    \/ EmbedCount
    \/ EmbedPrompt
    \/ EmbedDecide
    \/ EmbedPrepare
    \/ EmbedAddBatch
    \/ EmbedFinish
    \/ EmbedSearch

(***************************************************************************)
(* query_fables.py.  The distances come from the embedding function and    *)
(* are any values; collection.query returns the nearest entries, closest   *)
(* first, and no more of them than the collection holds.                   *)
(***************************************************************************)
Distances == {1, 2, 3}

\* collection.query(query_texts=[query], n_results=n), lines 16-19, for the
\* distances dist of the stored entries: ascending distance, entries at the
\* same distance in stored order
Nearest(entries, dist, n) ==
    LET c == Len(entries)
        before(q, p) == dist[q] < dist[p] \/ (dist[q] = dist[p] /\ q < p)
        rank(p) == 1 + Cardinality({q \in 1..c : before(q, p)})
        m == IF n < c THEN n ELSE c
    IN  [r \in 1..m |->
            LET p == CHOOSE x \in 1..c : rank(x) = r
            IN  [document |-> entries[p].document, metadata |-> entries[p].metadata,
                 distance |-> dist[p]]]

\* lines 12-13: PersistentClient and get_collection, which raises when the
\* store has no collection of that name; query_fables does not catch it
QueryGet ==
    /\ pc = "query_start"
    /\ \E k \in 1..MaxK : n_results' = k
    /\ pc' = IF collection.exists THEN "query_run" ELSE "query_error"
    /\ UNCHANGED <<normVars, scoreVars, diskVars, dedupVars, embedVars, in_file, results,
                   scrapeVars>>

\* lines 16-31: the query, and the results printed in the order returned
QueryRun ==
    /\ pc = "query_run"
    /\ \E dist \in [1..Len(collection.entries) -> Distances] :
           results' = Nearest(collection.entries, dist, n_results)
    /\ pc' = "query_done"
    /\ UNCHANGED <<normVars, scoreVars, diskVars, dedupVars, embedVars, in_file, n_results,
                   scrapeVars>>

QueryNext ==
    \/ QueryGet
    \/ QueryRun

(***************************************************************************)
(* scrape_fables.py.  What the site answers is the environment's choice:   *)
(* the search page or an error, and per link a page or an error.           *)
(***************************************************************************)
\* the text of s up to its first newline, and the text after it
FirstLine(s) ==
    LET nl == FindFrom(s, "\n", 1) IN IF nl = 0 THEN s ELSE SubSeq(s, 1, nl - 1)

AfterFirstLine(s) ==
    LET nl == FindFrom(s, "\n", 1) IN IF nl = 0 THEN "" ELSE SubSeq(s, nl + 1, Len(s))

\* line 72 and the filter of line 73: the stripped lines that are not empty
RECURSIVE StrippedLines(_)
StrippedLines(s) ==
    IF s = "" THEN <<>>
    ELSE LET line == strip(FirstLine(s))
         IN  (IF line = "" THEN <<>> ELSE <<line>>) \o StrippedLines(AfterFirstLine(s))

\* '\n'.join(lines)
RECURSIVE JoinLines(_)
JoinLines(lines) ==
    IF lines = <<>> THEN ""
    ELSE IF Len(lines) = 1 THEN lines[1]
    ELSE lines[1] \o "\n" \o JoinLines(Tail(lines))

\* the characters at the start of s that [A-Z\s] matches
RECURSIVE TitleRun(_, _)
TitleRun(s, i) ==
    IF i <= Len(s) /\ (Ch(s, i) \in UpperSet \/ IsSpace(Ch(s, i)))
    THEN 1 + TitleRun(s, i + 1) ELSE 0

\* lines 76-80: re.search(r'^([A-Z\s]+)\n', text), the greedy group stripped,
\* or the title of the link
extracted_title(text, link_title) ==
    LET nls == {q \in 2..TitleRun(text, 1) : Ch(text, q) = "\n"}
    IN  IF nls = {} THEN link_title
        ELSE strip(SubSeq(text, 1, (CHOOSE q \in nls : \A k \in nls : k <= q) - 1))

\* len(text.split())
WordCount(text) ==
    Cardinality({i \in 1..Len(text) :
                    ~IsSpace(Ch(text, i)) /\ (i = 1 \/ IsSpace(Ch(text, i - 1)))})

\* scrape_fable, lines 69-88, for the text get_text gave for the page
fable_data(fable_info, page) ==
    LET text == JoinLines(StrippedLines(page))
    IN  [title |-> extracted_title(text, fable_info.title),
         original_title |-> fable_info.title,
         url |-> fable_info.url,
         content |-> text,
         word_count |-> WordCount(text)]

\* the truth value of what scrape_fable returned: None or a dict
Truthy(data) == data # NoFable /\ DOMAIN data # {}

SleepsAlways(i, n) == i <= n

\* line 109: if i < len(fable_links)
SleepsAfter(i, n) == i < n

\* get_search_results, lines 45-49, for the i-th link of the page
Link(i) ==
    [title |-> "Fable " \o Digits(i),
     url |-> "https://aesopfables.com/cgi/aesop1.cgi?srch&fabl/F" \o Digits(i),
     relative_path |-> "./aesop1.cgi?srch&fabl/F" \o Digits(i)]

\* what get_text gives for a fable page
PageTexts ==
    {"THE FOX\n\n  A fox saw grapes. \n", "A crow.\nIt flew.", "", "THE\nEND\nreturn"}

\* line 97: get_search_results, which raises when the search page cannot be
\* fetched and otherwise returns the links of the page
ScrapeSearch ==
    /\ pc = "scrape_start"
    /\ \/ /\ pc' = "HTTPError"
          /\ UNCHANGED fable_links
       \/ /\ \E n \in 0..MaxLinks : fable_links' = [i \in 1..n |-> Link(i)]
          /\ pc' = "scraping"
    /\ UNCHANGED <<normVars, scoreVars, diskVars, dedupVars, embedVars, in_file, queryVars,
                   li, scraped_fables, visited, sleeps>>

\* lines 101-110, one link: scrape_fable returns the record of the page, or
\* None when anything in it raised; then the delay
ScrapeOne ==
    /\ pc = "scraping"
    /\ li < Len(fable_links)
    /\ \E data \in {NoFable} \cup {fable_data(fable_links[li + 1], page) : page \in PageTexts} :
           /\ visited' = Append(visited, [link |-> li + 1, data |-> data])
           /\ scraped_fables' = IF Truthy(data) THEN Append(scraped_fables, data)
                                 ELSE scraped_fables
    /\ sleeps' = IF SleepsAfter(li + 1, Len(fable_links)) THEN Append(sleeps, li + 1)
                 ELSE sleeps
    /\ li' = li + 1
    /\ UNCHANGED <<pc, normVars, scoreVars, diskVars, dedupVars, embedVars, in_file,
                   queryVars, fable_links>>

\* line 112: the loop is over and the list is returned
ScrapeReturn ==
    /\ pc = "scraping"
    /\ li >= Len(fable_links)
    /\ pc' = "scrape_done"
    /\ UNCHANGED <<normVars, scoreVars, diskVars, dedupVars, embedVars, in_file, queryVars,
                   scrapeVars>>

\* main, lines 125-133: save_fables writes aesop_fables.json
ScrapeSave ==
    /\ pc = "scrape_done"
    /\ files' = [files EXCEPT !["aesop_fables.json"] = WriteFile(@, scraped_fables)]
    /\ pc' = "scraped"
    /\ UNCHANGED <<normVars, scoreVars, removed_file, runs, dedupVars, embedVars, in_file,
                   queryVars, scrapeVars>>

ScrapeNext ==
    \/ ScrapeSearch
    \/ ScrapeOne
    \/ ScrapeReturn
    \/ ScrapeSave

(***************************************************************************)
(* The parts of the state a specification does not use stay as they are   *)
(* before anything has run.                                                 *)
(***************************************************************************)
\* no candidate scored
ScorerIdle ==
    /\ cand = NoFable
    /\ total = NoScore
    /\ dups = <<>>
    /\ chosen = 0

\* no title normalized
NormalizerIdle ==
    /\ t = ""
    /\ u = ""
    /\ kt = ""
    /\ ku = ""

\* the embedder not started
EmbedderIdle ==
    /\ e_fables = <<>>
    /\ collection = NoCollection
    /\ existing_count = 0
    /\ prepared = <<>>
    /\ bi = 0
    /\ persisted = NoCollection
    /\ proceed = ""
    /\ deleted = 0
    /\ add_calls = <<>>

\* no query made
QueryIdle ==
    /\ n_results = 0
    /\ results = <<>>

\* the scraper not started
ScraperIdle ==
    /\ fable_links = <<>>
    /\ li = 0
    /\ scraped_fables = <<>>
    /\ visited = <<>>
    /\ sleeps = <<>>

\* no file written and no pipeline script started
PipelineIdle ==
    /\ files = [f \in FileNames |-> Absent]
    /\ removed_file = Absent
    /\ runs = 0
    /\ fables = <<>>
    /\ title_groups = <<>>
    /\ gi = 0
    /\ si = 0
    /\ deduplicated_fables = <<>>
    /\ duplicates_found = 0
    /\ removed_stories = <<>>
    /\ EmbedderIdle
    /\ in_file = ""
    /\ QueryIdle
    /\ ScraperIdle

(***************************************************************************)
(* Normalizer specification: a title built from tokens, a variant of it    *)
(* that differs by punctuation, a leading article or a trailing genre word, *)
(* and the keys normalize_title returns for both.                           *)
(***************************************************************************)
Tokens == {"The", "a", "an", "Fox", "fable", "Tale", " ", "\t", ",", "_", "7"}

RECURSIVE Concat(_)
Concat(ts) == IF ts = <<>> THEN "" ELSE Head(ts) \o Concat(Tail(ts))

Titles == {Concat(ts) : ts \in UNION {[1..n -> Tokens] : n \in 0..MaxTokens}}

PunctChars == {",", "'", "."}
LeadingArticles == {"the ", "The ", "a ", "An\t"}
TrailingGenres == {" fable", " Story", "\ttale"}

NormInit ==
    /\ pc = "title"
    /\ t \in Titles
    /\ u = t
    /\ kt = ""
    /\ ku = ""
    /\ ScorerIdle
    /\ PipelineIdle

\* the variant gets one punctuation character at any position
Punctuate ==
    /\ pc = "title"
    /\ \E i \in 0..Len(u), c \in PunctChars :
           u' = SubSeq(u, 1, i) \o c \o SubSeq(u, i + 1, Len(u))
    /\ pc' = "variant"
    /\ UNCHANGED <<t, kt, ku, scoreVars, diskVars, dedupVars, embedVars>>
    /\ UNCHANGED <<in_file, queryVars, scrapeVars>>

\* the variant gets a leading article
PrependArticle ==
    /\ pc = "title"
    /\ \E a \in LeadingArticles : u' = a \o u
    /\ pc' = "variant"
    /\ UNCHANGED <<t, kt, ku, scoreVars, diskVars, dedupVars, embedVars>>
    /\ UNCHANGED <<in_file, queryVars, scrapeVars>>

\* the variant gets a trailing genre word
AppendGenre ==
    /\ pc = "title"
    /\ \E g \in TrailingGenres : u' = u \o g
    /\ pc' = "variant"
    /\ UNCHANGED <<t, kt, ku, scoreVars, diskVars, dedupVars, embedVars>>
    /\ UNCHANGED <<in_file, queryVars, scrapeVars>>

Normalize ==
    /\ pc \in {"title", "variant"}
    /\ kt' = normalize_title(t)
    /\ ku' = normalize_title(u)
    /\ pc' = "normalized"
    /\ UNCHANGED <<t, u, scoreVars, diskVars, dedupVars, embedVars>>
    /\ UNCHANGED <<in_file, queryVars, scrapeVars>>

NormNext == Punctuate \/ PrependArticle \/ AppendGenre \/ Normalize

SpecNorm == NormInit /\ [][NormNext]_vars

(***************************************************************************)
(* Scorer specification: one candidate, any word count around the          *)
(* thresholds and any combination of markers in its content.                *)
(***************************************************************************)
WordCounts == {-1, 0, 40, 49, 50, 75, 99, 100, 250, 500, 501, 600, 1000, 1001, 1500}

Contents ==
    {"A Fox saw grapes. " \o a \o b \o c \o m :
        a \in {"", "AesopFables.com "},
        b \in {"", "RETURN Process took: 0.01 seconds "},
        c \in {"", "Copyright 2001 ", "copyright "},
        m \in {"", "Moral: be glad", "LESSON: wait", "Application: none", "the moral"}}

ScoreInit ==
    /\ pc = "candidate"
    /\ cand \in {[word_count |-> w, content |-> c] : w \in WordCounts, c \in Contents}
    /\ total = NoScore
    /\ dups = <<>>
    /\ chosen = 0
    /\ PipelineIdle
    /\ NormalizerIdle

\* one pass of the loop of choose_best_version, lines 31-59
ScoreCandidate ==
    /\ pc = "candidate"
    /\ total' = total_score(cand)
    /\ pc' = "scored"
    /\ UNCHANGED <<cand, dups, chosen, normVars, diskVars, dedupVars, embedVars>>
    /\ UNCHANGED <<in_file, queryVars, scrapeVars>>

ScoreNext == ScoreCandidate

SpecScore == ScoreInit /\ [][ScoreNext]_vars

(***************************************************************************)
(* Selection specification: choose_best_version applied to one group of    *)
(* at most MaxGroup candidates.                                             *)
(***************************************************************************)
MarkerContents ==
    {"A fox.",
     "AesopFables.com A fox.",
     "A fox. Process took: 1s Copyright 2001 MORAL: wait"}

Candidates ==
    {[word_count |-> w, content |-> c] : w \in {40, 75, 250, 600, 1500}, c \in MarkerContents}

SelectInit ==
    /\ pc = "group"
    /\ \E n \in 1..MaxGroup : dups \in [1..n -> Candidates]
    /\ chosen = 0
    /\ cand = NoFable
    /\ total = NoScore
    /\ PipelineIdle
    /\ NormalizerIdle

\* the call of line 95
ChooseBest ==
    /\ pc = "group"
    /\ chosen' = choose_best_version(dups)
    /\ pc' = "chosen"
    /\ UNCHANGED <<cand, total, dups, normVars, diskVars, dedupVars, embedVars>>
    /\ UNCHANGED <<in_file, queryVars, scrapeVars>>

SelectNext == ChooseBest

SpecSelect == SelectInit /\ [][SelectNext]_vars

(***************************************************************************)
(* Pipeline specification: the scraper has saved aesop_fables.json, then    *)
(* the deduplication script runs.                                           *)
(***************************************************************************)
Fable(title, url, word_count, content) ==
    [title |-> title, original_title |-> title, url |-> url,
     content |-> content, word_count |-> word_count]

Without(fable, k) == [x \in DOMAIN fable \ {k} |-> fable[x]]

TitleUrls ==
    {<<"The Fox", "http://aesopfables.com/cgi/aesop1.cgi?srch&fabl/TheFox">>,
     <<"Fox Tale", "http://aesopfables.com/fox2.html">>,
     <<"THE CROW.", "http://aesopfables.com/cgi/aesop1.cgi?srch&fabl/Crow?srch&2">>}

Qualities ==
    {<<40, "A fox.">>,
     <<250, "A fox saw grapes.">>,
     <<1500, "A fox saw grapes, and more.">>,
     <<250, "AesopFables.com A fox. Moral: wait.">>}

WellFormed == {Fable(tu[1], tu[2], q[1], q[2]) : tu \in TitleUrls, q \in Qualities}

Malformed ==
    {Without(Fable("The Fox", "http://aesopfables.com/f1", 250, "A fox."), "title"),
     Without(Fable("Fox Tale", "http://aesopfables.com/f2", 250, "A fox."), "word_count"),
     Without(Fable("The Fox", "http://aesopfables.com/f3", 250, "A fox."), "content")}

RawRecords == WellFormed \cup Malformed

Init ==
    /\ pc = "scraped"
    /\ NormalizerIdle
    /\ ScorerIdle
    /\ \E n \in 0..MaxRecords : \E raw \in [1..n -> RawRecords] :
           files = [f \in FileNames |-> IF f = input_file THEN File(raw) ELSE Absent]
    /\ removed_file = Absent
    /\ runs = 0
    /\ fables = <<>>
    /\ title_groups = <<>>
    /\ gi = 0
    /\ si = 0
    /\ deduplicated_fables = <<>>
    /\ duplicates_found = 0
    /\ removed_stories = <<>>
    /\ EmbedderIdle
    /\ in_file = ""
    /\ QueryIdle
    /\ ScraperIdle

Next ==
    \/ DedupLoad
    \/ DedupGroup
    \/ DedupStartSelect
    \/ DedupSelect
    \/ DedupSave
    \/ DedupStats

Spec == Init /\ [][Next]_vars

\* the deduplication, also run on the file it wrote
FixNext == Next \/ DedupLoadOutput

SpecFix == Init /\ [][FixNext]_vars

\* the deduplication script and the embedding script, one after the other
PipeNext == Next \/ EmbedNext

SpecPipe == Init /\ [][PipeNext]_vars

(***************************************************************************)
(* Embedder specification: main of embed_fables.py on a data file of        *)
(* scraped records, whose content carries the site's header and footer.     *)
(***************************************************************************)
EmbedContents ==
    {"AesopFables.com Fox\nA fox.\n \n\nMoral.\nTHE END\n RETURN\nProcess took: 1s Copyright 1\n",
     "A crow.\n\t\n\nIt flew. RETURN  Process took 2s",
     " A hare. \n",
     ""}

EmbedRecords ==
    {Fable(tu[1], tu[2], 250, c) :
        tu \in {<<"The Fox", "http://aesopfables.com/fox.html">>,
                <<"The Crow", "http://aesopfables.com/crow.html">>},
        c \in EmbedContents}
    \cup {Without(Fable("The Fox", "http://aesopfables.com/f2", 250, "A fox."), "word_count")}

EmbedInit ==
    /\ pc = "scraped"
    /\ NormalizerIdle
    /\ ScorerIdle
    /\ \E n \in 0..MaxFables : \E raw \in [1..n -> EmbedRecords] :
           files = [f \in FileNames |-> IF f = data_file THEN File(raw) ELSE Absent]
    /\ removed_file = Absent
    /\ runs = 0
    /\ fables = <<>>
    /\ title_groups = <<>>
    /\ gi = 0
    /\ si = 0
    /\ deduplicated_fables = <<>>
    /\ duplicates_found = 0
    /\ removed_stories = <<>>
    /\ EmbedderIdle
    /\ in_file = ""
    /\ QueryIdle
    /\ ScraperIdle

SpecEmbed == EmbedInit /\ [][EmbedNext]_vars

(***************************************************************************)
(* Batch specification: main of embed_fables.py on data files long enough   *)
(* for several batches.                                                      *)
(***************************************************************************)
\* the record scraped from the i-th link
ScrapedFable(i) ==
    Fable("Fable " \o Digits(i), "http://aesopfables.com/f" \o Digits(i), 100 + i, "A fox.")

BatchInit ==
    /\ pc = "scraped"
    /\ NormalizerIdle
    /\ ScorerIdle
    /\ \E n \in 0..MaxItems :
           files = [f \in FileNames |->
                       IF f = data_file THEN File([i \in 1..n |-> ScrapedFable(i)])
                       ELSE Absent]
    /\ removed_file = Absent
    /\ runs = 0
    /\ fables = <<>>
    /\ title_groups = <<>>
    /\ gi = 0
    /\ si = 0
    /\ deduplicated_fables = <<>>
    /\ duplicates_found = 0
    /\ removed_stories = <<>>
    /\ EmbedderIdle
    /\ in_file = ""
    /\ QueryIdle
    /\ ScraperIdle

SpecBatch == BatchInit /\ [][EmbedNext]_vars

(***************************************************************************)
(* Query specification: query_fables on the store an earlier embedding run  *)
(* left, or on a store where none has run.                                   *)
(***************************************************************************)
\* the entry stored for the i-th scraped record
StoredEntry(i) == Entry(i - 1, ScrapedFable(i))

Stores ==
    {NoCollection} \cup {Collection([i \in 1..c |-> StoredEntry(i)]) : c \in 0..MaxStored}

QueryInit ==
    /\ pc = "query_start"
    /\ NormalizerIdle
    /\ ScorerIdle
    /\ files = [f \in FileNames |-> Absent]
    /\ removed_file = Absent
    /\ runs = 0
    /\ fables = <<>>
    /\ title_groups = <<>>
    /\ gi = 0
    /\ si = 0
    /\ deduplicated_fables = <<>>
    /\ duplicates_found = 0
    /\ removed_stories = <<>>
    /\ e_fables = <<>>
    /\ collection \in Stores
    /\ existing_count = 0
    /\ prepared = <<>>
    /\ bi = 0
    /\ persisted = NoCollection
    /\ proceed = ""
    /\ deleted = 0
    /\ add_calls = <<>>
    /\ in_file = ""
    /\ QueryIdle
    /\ ScraperIdle

SpecQuery == QueryInit /\ [][QueryNext]_vars

(***************************************************************************)
(* Scraper specification: main of scrape_fables.py.                          *)
(***************************************************************************)
ScrapeInit ==
    /\ pc = "scrape_start"
    /\ NormalizerIdle
    /\ ScorerIdle
    /\ PipelineIdle

SpecScrape == ScrapeInit /\ [][ScrapeNext]_vars

(***************************************************************************)
(* Claims about the title normalizer.                                       *)
(***************************************************************************)

\* C1: two titles that differ only by punctuation characters, by a leading
\* article or by a trailing genre word get the same key from normalize_title.
C1_VariantsShareKey == pc = "normalized" => kt = ku

KeyChar(c) == IsLetter(c) \/ IsDigit(c) \/ c = " "

\* C2: a key holds only letters, digits and single spaces, and neither
\* starts nor ends with a space.
C2_KeyIsCleaned ==
    pc = "normalized" =>
        /\ \A i \in 1..Len(kt) : KeyChar(Ch(kt, i))
        /\ \A i \in 1..(Len(kt) - 1) : ~(Ch(kt, i) = " " /\ Ch(kt, i + 1) = " ")
        /\ kt = "" \/ (Ch(kt, 1) # " " /\ Ch(kt, Len(kt)) # " ")

(***************************************************************************)
(* Claims about the version scorer.                                         *)
(***************************************************************************)
\* the scoring rule as the specification words it, in exact decimals
\* (word score in tenths, content score in tenths)
StatedWordScore(w) ==
    CASE w >= 100 /\ w <= 500 -> 10
      [] w > 500 /\ w <= 1000 -> 9
      [] w >= 50 /\ w < 100 -> 8
      [] OTHER -> 5

StatedContentScore(c) ==
    10 - (IF Contains(c, "AesopFables.com") THEN 1 ELSE 0)
       - (IF Contains(c, "Process took:") THEN 2 ELSE 0)
       - (IF Contains(c, "Copyright") THEN 1 ELSE 0)
       + (IF \E m \in MoralWords : Contains(lower(c), m) THEN 2 ELSE 0)

\* C7: the score given to a candidate is word_score x content_score of the
\* stated rule (the double nearest to that decimal product).
C7_ScoreIsStatedProduct ==
    pc = "scored" =>
        total = Float(StatedWordScore(cand.word_count) * StatedContentScore(cand.content), 0)

(***************************************************************************)
(* Claims about the duplicate grouper.                                      *)
(***************************************************************************)
GroupSlots == {<<g, j>> \in (1..Len(title_groups)) \X (1..Len(fables)) :
                   j <= Len(title_groups[g].group)}

\* the fables the grouping loop has handled
Grouped == 1..(IF pc = "grouping" THEN gi - 1 ELSE Len(fables))

AfterGrouping == pc \in {"selecting", "dedup_saved", "dedup_done"}

\* C3: grouping by normalize_title(title) is a partition of the input by
\* position: every record grouped so far is in exactly one group, under the
\* key of its title, no group is empty and no two groups share a key.
C3_GroupingIsPartition ==
    pc = "grouping" \/ AfterGrouping =>
        /\ \A i \in Grouped :
               Cardinality({s \in GroupSlots : title_groups[s[1]].group[s[2]] = i}) = 1
        /\ \A s \in GroupSlots :
               /\ title_groups[s[1]].group[s[2]] \in Grouped
               /\ title_groups[s[1]].key =
                      normalize_title(fables[title_groups[s[1]].group[s[2]]]["title"])
        /\ \A g \in 1..Len(title_groups) : title_groups[g].group # <<>>
        /\ \A g, h \in 1..Len(title_groups) :
               g # h => title_groups[g].key # title_groups[h].key

\* three records grouped into one group of two and one group of one
C3_Witness ==
    /\ pc = "selecting"
    /\ Len(fables) = 3
    /\ Len(title_groups) = 2
    /\ \E g \in 1..2 : Len(title_groups[g].group) = 2

\* C4: inside each group the records keep their input order, the groups are
\* in the order in which their keys first occur, and the kept records, in
\* the list and in the output file, follow the order of the groups.
C4_FirstSeenOrder ==
    pc = "grouping" \/ AfterGrouping =>
        /\ \A s \in GroupSlots :
               s[2] > 1 => title_groups[s[1]].group[s[2] - 1] < title_groups[s[1]].group[s[2]]
        /\ \A g \in 1..(Len(title_groups) - 1) :
               title_groups[g].group[1] < title_groups[g + 1].group[1]
        /\ Len(deduplicated_fables) <= Len(title_groups)
        /\ \A j \in 1..Len(deduplicated_fables) :
               \E k \in 1..Len(title_groups[j].group) :
                   title_groups[j].group[k] = deduplicated_fables[j]
        /\ pc = "dedup_saved" =>
               /\ Len(files[output_file].data) = Len(title_groups)
               /\ \A j \in 1..Len(title_groups) :
                      files[output_file].data[j] = fables[deduplicated_fables[j]]

\* the second key has its first record before the second record of the
\* first key, and both kept records are written
C4_Witness ==
    /\ pc = "dedup_saved"
    /\ Len(title_groups) = 2
    /\ title_groups[1].group = <<1, 3>>
    /\ title_groups[2].group = <<2>>
    /\ Len(files[output_file].data) = 2

(***************************************************************************)
(* Claims about selection.                                                  *)
(***************************************************************************)
PlainContent(c) == StatedContentScore(c) = 10

\* C6: the record chosen from a group is a member whose total_score no
\* member exceeds and the earliest such member; the sole member of a group
\* of one is chosen; of plain members with 40, 250 and 1500 words the
\* 250-word member is chosen.
C6_FirstMaximumChosen ==
    pc = "chosen" =>
        LET scores == scored_versions(dups)
        IN  /\ chosen \in 1..Len(dups)
            /\ \A k \in 1..Len(dups) : ~FloatLess(scores[chosen], scores[k])
            /\ \A h \in 1..(chosen - 1) : FloatLess(scores[h], scores[chosen])
            /\ Len(dups) = 1 => chosen = 1
            /\ (/\ Len(dups) = 3
                /\ {dups[k].word_count : k \in 1..3} = {40, 250, 1500}
                /\ \A k \in 1..3 : PlainContent(dups[k].content))
                   => dups[chosen].word_count = 250

\* the second and the third member share the highest score, the second is chosen
C6_Witness ==
    /\ pc = "chosen"
    /\ Len(dups) = 3
    /\ chosen = 2
    /\ total_score(dups[3]) = total_score(dups[2])
    /\ dups[3] # dups[2]

\* the members of group other than the kept position, as removed entries
RECURSIVE OthersOf(_, _)
OthersOf(group, kept) ==
    IF group = <<>> THEN <<>>
    ELSE (IF Head(group) # kept THEN <<url_suffix(fables[Head(group)]["url"])>> ELSE <<>>)
             \o OthersOf(Tail(group), kept)

RECURSIVE AllOthers(_)
AllOthers(g) ==
    IF g > Len(title_groups) THEN <<>>
    ELSE OthersOf(title_groups[g].group, deduplicated_fables[g]) \o AllOthers(g + 1)

\* C8: every member of a group other than the kept one, counted by position,
\* is a removed entry under its URL suffix, so the removed entries number
\* the input records minus the kept records.
C8_EveryOtherMemberRemoved ==
    pc = "dedup_saved" =>
        /\ removed_file.data = AllOthers(1)
        /\ Len(removed_file.data) = Len(fables) - Len(deduplicated_fables)

RequiredFields == {"title", "content", "word_count"}

IsMalformed(fable) == ~(RequiredFields \subseteq DOMAIN fable)

WellFormedKeys == {normalize_title(fables[i]["title"]) :
                       i \in {j \in 1..Len(fables) : ~IsMalformed(fables[j])}}

\* C9: with one record lacking a required field the run does not abort, the
\* record is skipped, and one record per key of the other records is kept.
C9_MalformedRecordSkipped ==
    Cardinality({i \in 1..Len(fables) : IsMalformed(fables[i])}) = 1 =>
        /\ pc # "KeyError"
        /\ pc = "dedup_saved" =>
               /\ \A j \in 1..Len(deduplicated_fables) :
                      ~IsMalformed(fables[deduplicated_fables[j]])
               /\ Len(deduplicated_fables) = Cardinality(WellFormedKeys)
               /\ {normalize_title(fables[deduplicated_fables[j]]["title"]) :
                       j \in 1..Len(deduplicated_fables)} = WellFormedKeys

\* C10: a further run over the unchanged input file writes the same kept
\* records in the same order and the same removed entries in the same order.
C10_RerunWritesSame ==
    [][(runs >= 1 /\ runs' = runs + 1) =>
           (files' = files /\ removed_file' = removed_file)]_vars

\* the second run has written its output, with two kept records and a removed entry
C10_Witness ==
    /\ runs = 2
    /\ pc = "dedup_saved"
    /\ Len(files[output_file].data) = 2
    /\ removed_file.data # <<>>

(***************************************************************************)
(* Claims about the pipeline.                                               *)
(***************************************************************************)
EntryKeys == {normalize_title(collection.entries[k].metadata.title) :
                  k \in 1..Len(collection.entries)}

RawKeys == {normalize_title(files[input_file].data[i]["title"]) :
                i \in 1..Len(files[input_file].data)}

\* the deduplication has run and the embedder has then filled a collection
\* that it found empty
IndexBuilt == pc = "embed_done" /\ runs >= 1 /\ existing_count = 0

\* C5: after deduplicate then embed, the collection holds exactly one entry
\* for every normalized key of the raw records: no two entries have titles
\* with the same key and no key is missing.
C5_OneEntryPerKey ==
    IndexBuilt =>
        /\ \A j, k \in 1..Len(collection.entries) :
               j # k => normalize_title(collection.entries[j].metadata.title)
                            # normalize_title(collection.entries[k].metadata.title)
        /\ EntryKeys = RawKeys

(***************************************************************************)
(* Claims about the embedder.                                               *)
(***************************************************************************)
\* the entries given to collection.add so far, in the order given
RECURSIVE Flatten(_)
Flatten(calls) == IF calls = <<>> THEN <<>> ELSE Head(calls) \o Flatten(Tail(calls))

Submitted == Flatten(add_calls)

\* the number a string of decimal digits denotes
RECURSIVE DigitsValue(_)
DigitsValue(s) ==
    IF s = "" THEN 0
    ELSE 10 * DigitsValue(SubSeq(s, 1, Len(s) - 1))
         + (CHOOSE d \in 0..9 : Ch(DigitChars, d + 1) = Ch(s, Len(s)))

\* the batch loop of embed_fables has ended without an error
EmbedFablesReturned == pc = "embed_batches" /\ bi >= Len(prepared)

\* embed_fables started on a collection without entries
StartedEmpty == existing_count = 0 \/ deleted > 0

C12_BatchesOfAtMostHundred ==
    /\ \A c \in 1..Len(add_calls) : Len(add_calls[c]) <= 100
    /\ EmbedFablesReturned =>
           LET n == Len(e_fables)
           IN  /\ Len(add_calls) = (n + 99) \div 100
               /\ \A c \in 1..Len(add_calls) :
                      add_calls[c] =
                          SubSeq(prepared, 100 * (c - 1) + 1,
                                 IF 100 * c < n THEN 100 * c ELSE n)
               /\ Len(prepared) = n
               /\ Submitted = prepared

\* 201 items were given in three calls, the last of one item
C12_Witness ==
    /\ EmbedFablesReturned
    /\ Len(e_fables) = 201
    /\ Len(add_calls) = 3
    /\ Len(add_calls[3]) = 1

\* the entries found at the start of the run are still the first entries of
\* the collection, as they were
KeptAsFound ==
    /\ Len(persisted.entries) <= Len(collection.entries)
    /\ SubSeq(collection.entries, 1, Len(persisted.entries)) = persisted.entries

\* C13: in a run of the embedder's main the existing collection is deleted
\* and created again, with no entries, only after the operator has answered
\* 'y' to the prompt that asks to recreate it; in every other run the entries
\* stored before the run stay stored, unchanged.
C13_RecreateOnlyOnYes ==
    /\ deleted > 0 => proceed = "y"
    /\ deleted = 0 => KeptAsFound

\* the operator answered 'y' and the collection found was replaced by an
\* empty one
C13_Witness ==
    /\ pc = "embed_decide"
    /\ proceed = "y"
    /\ deleted = 1
    /\ persisted.entries # <<>>
    /\ collection.entries = <<>>

\* C15: embed_fables is called only when the collection was empty at the
\* start of the run or was recreated in it: whatever the operator answers,
\* the collection has no entries when embed_fables starts, and no id is
\* added to a collection that already holds it.
C15_EmbedOnlyIntoEmpty ==
    /\ pc = "embed_prepare" => StartedEmpty /\ collection.entries = <<>>
    /\ pc # "DuplicateIDError"

\* C16: whenever the collection was recreated, the loaded fables are embedded
\* into it before the test searches run: whatever the operator answers, the
\* searches find as many entries as fables were loaded.
C16_RecreatedIsRefilled ==
    (pc \in {"embed_search", "embed_done"} /\ deleted > 0) =>
        Len(collection.entries) = Len(e_fables)

(***************************************************************************)
(* Claims about the query.                                                  *)
(***************************************************************************)
\* C14: a query for k results against a store of c entries returns exactly
\* min(k, c) results, no result closer than the one before it (3 results for
\* k = 3 and c = 10); against a store without entries it returns an empty
\* sequence and is not an error.
C14_QueryReturnsNearest ==
    /\ Len(collection.entries) = 0 => pc # "query_error"
    /\ pc = "query_done" =>
           /\ Len(results) = IF n_results < Len(collection.entries) THEN n_results
                             ELSE Len(collection.entries)
           /\ \A r \in 1..(Len(results) - 1) :
                  results[r].distance <= results[r + 1].distance

(***************************************************************************)
(* Claims about running the deduplication again.                            *)
(***************************************************************************)
\* C17: deduplication reaches a fixed point in one pass: deduplicate_fables
\* run on its own output writes that output again, the same records in the
\* same order, with every group a singleton and nothing in the removed list;
\* and every record a run writes is one of the records it read, with no field
\* changed.
C17_FixedPointInOnePass ==
    pc = "dedup_saved" =>
        /\ \A j \in 1..Len(files[output_file].data) :
               \E i \in 1..Len(fables) : fables[i] = files[output_file].data[j]
        /\ in_file = output_file =>
               /\ files[output_file].data = fables
               /\ \A g \in 1..Len(title_groups) : Len(title_groups[g].group) = 1
               /\ removed_stories = <<>>
               /\ removed_file = File(<<>>)

\* a run on three raw records kept two of them, and a run on those two has
\* been saved
C17_Witness ==
    /\ pc = "dedup_saved"
    /\ in_file = output_file
    /\ Len(files[input_file].data) = 3
    /\ Len(fables) = 2

(***************************************************************************)
(* Claims about the scraper.                                                *)
(***************************************************************************)
\* the calls of scrape_fable that returned a record
Succeeded(call) == call.data # NoFable

\* C18: scrape_all_fables visits every link once, in link order; whichever
\* links fail, it ends with a result that holds exactly the records of the
\* links that succeeded, in link order; a link that fails is skipped and the
\* loop goes on, and the delay is made after every link except the last.
C18_FailedLinksSkipped ==
    /\ pc \in {"scraping", "scrape_done"} =>
           /\ li <= Len(fable_links)
           /\ Len(visited) = li
           /\ \A k \in 1..li : visited[k].link = k
           /\ li < Len(fable_links) => pc = "scraping"
    /\ pc = "scrape_done" =>
           LET n == Len(fable_links)
               good == SelectSeq(visited, Succeeded)
           IN  /\ li = n
               /\ Len(scraped_fables) = Len(good)
               /\ \A j \in 1..Len(good) :
                      /\ scraped_fables[j] = good[j].data
                      /\ scraped_fables[j].url = fable_links[good[j].link].url
               /\ sleeps = [k \in 1..(IF n = 0 THEN 0 ELSE n - 1) |-> k]

\* three links, the second failed: two records, two delays
C18_Witness ==
    /\ pc = "scrape_done"
    /\ Len(fable_links) = 3
    /\ visited[1].data # NoFable
    /\ visited[2].data = NoFable
    /\ visited[3].data # NoFable
    /\ Len(scraped_fables) = 2
    /\ sleeps = <<1, 2>>

====
